---- MODULE Spec2Model ----
(***************************************************************************)
(* Deployment orchestration of the 83rr-poweredge infrastructure scripts:  *)
(*   - PortainerStackManager  (scripts/portainer_stack_manager.py)         *)
(*   - InfrastructureManager  (scripts/infrastructure_manager.py)          *)
(*   - ManagedSSHDeployer     (scripts/deploy_all_services.py)             *)
(*   - deploy_via_ssh         (scripts/deploy_via_ssh.py)                  *)
(*   - SSHManager             (scripts/ssh_manager.py)                     *)
(* One orchestrating process runs one entry point (cmd); the control plane *)
(* (Portainer) and the remote host are its environment.                    *)
(***************************************************************************)
EXTENDS Integers, Sequences, FiniteSets, TLC

VARIABLES
    cmd,            \* entry point that is running
    pc,             \* position of the orchestrating process
    idx,            \* position in STACK_ORDER / services (1-based)
    use_registry,   \* InfrastructureManager.use_registry
    state,          \* DeploymentState of every bundle
    success_count,  \* deploy_all_stacks: success_count
    failed_stacks,  \* deploy_all_stacks: failed_stacks / deploy_all: failed_services
    exitCode,       \* process exit code, -1 while running
    cp,             \* control plane: the set of stack instances
    nextId,         \* control plane: id the next created stack gets
    last,           \* the last completed call of the API client
    open,           \* number of open remote (ssh/scp) connections
    conn,           \* the remote connection in flight ("" when none)
    sshStep,        \* deploy_via_ssh: the subprocess it is at
    actFailed,      \* bundles whose deployment failed: compose file missing, definition
                    \* not applied by the control plane, remote command not exited 0
    calls,          \* number of PortainerStackManager calls made by the API client
    credential,     \* the control-plane credential of the run: missing, rejected or valid
    authAt,         \* position of the first bundle during whose deployment the control
                    \* plane rejected the credential (0: none)
    transportAt,    \* position of the first bundle during whose deployment a request
                    \* or remote command failed at the transport level (0: none)
    prompts,        \* the operator's answer to the continue prompt after each bundle
    viaOpened,      \* deploy_via_ssh: connections the running deployment has opened
    health,         \* the last health_check call of the API client
    build,          \* the last RegistryBuilder call
    disk,           \* the stack directory RegistryBuilder works in
    generated,      \* the last generate_registry_compose call
    race,           \* two API clients running deploy_stack for one name: each one's position
    channel,        \* a script opening remote connections one after the other: times and last call
    remote          \* deploy_via_ssh: the remote command sequence of the running deployment

vars == <<cmd, pc, idx, use_registry, state, success_count, failed_stacks,
          exitCode, cp, nextId, last, open, conn, sshStep, actFailed, calls,
          credential, transportAt, authAt, prompts, viaOpened, health, build,
          disk, generated, race, channel, remote>>

-----------------------------------------------------------------------------
(* Bounds of the model *)

\* remote connections opened in one run of a script using the channel
MaxConnections == 3

\* commands queued in one ssh_session block
MaxQueued == 2

\* PortainerStackManager calls made in one API-client run
MaxCalls == 2
\* containers the container listing returns for one stack
MaxListed == 1
\* containers on the host when health_check is called directly
MaxContainers == 5

-----------------------------------------------------------------------------
(* Bundle Descriptor Registry *)

STACK_ORDER ==
    <<"traefik", "jupyter", "opensearch", "personal-website", "flask-api", "minecraft">>

BUILD_STACKS == {"personal-website", "flask-api", "jupyter"}

\* ManagedSSHDeployer.services, in deployment order
services == <<"traefik", "personal-website", "jupyter", "opensearch">>

\* cleanup_ssh_deployed_stacks: unmanaged_stacks
unmanaged_stacks == <<"opensearch", "personal-website", "flask-api", "minecraft">>

\* test_ssl_endpoints: the endpoints probed, one ssh connection each
endpoints == <<"www", "flask", "traefik-local", "jupyter">>

Bundles == {STACK_ORDER[i] : i \in 1..Len(STACK_ORDER)}

\* the stack the API client works on, and the stacks that may exist beside it
ApiNames == {"minecraft"}
ApiPlaneNames == {"traefik", "minecraft"}

\* compose files: "bad" is missing or not a compose file, the others are contents
Files == {"bad", "v1", "v2"}

DeploymentStates ==
    {"Absent", "Building", "Published", "Activating", "Active", "Unhealthy", "Failed"}

Finished == {"Active", "Unhealthy", "Failed"}
InProgress == {"Building", "Published", "Activating"}

-----------------------------------------------------------------------------
(* Control-Plane Client: PortainerStackManager *)

\* get_stack returning None
NoStack == [id |-> 0, name |-> "", status |-> 0, content |-> ""]

\* outcome of one HTTP request: a 2xx answer, an error status, or no answer
\* (requests raises, _make_request returns None)
Resp == {"ok", "http_error", "transport"}

\* the answers to the successive requests of one call that issues at most n
Faults(n) == [1..n -> Resp]

\* the control plane rejects the credential: every request is answered 401
Rejected(n) == [i \in 1..n |-> "auth"]

\* the answers a run with this credential can get to n successive requests
Answers(cred, n) == IF cred = "rejected" THEN {Rejected(n)} ELSE Faults(n)

\* one of the requests issued got no answer (connection refused, timeout)
Transport(reqs, f) == \E i \in 1..Len(reqs) : f[i] = "transport"

\* one of the requests issued was answered 401
Unauthorized(reqs, f) == \E i \in 1..Len(reqs) : f[i] = "auth"

\* the running call: control plane, requests issued so far, the HTTP status of
\* the last answer (0: no answer), whether the control plane applied a change,
\* and the call's result
World(c, n) ==
    [cp |-> c, nextId |-> n, reqs |-> <<>>, status |-> 0, applied |-> FALSE,
     ok |-> TRUE, err |-> "None"]

Issue(w, kind) == [w EXCEPT !.reqs = Append(@, kind)]

\* answer to the request issued last
Answer(w, f) == f[Len(w.reqs)]

Ret(w, ok, err) == [w EXCEPT !.ok = ok, !.err = err]

Named(c, name) == {s \in c : s.name = name}

\* GET stacks, then the first stack of that name; None when the request failed
get_stack(c, name, r) ==
    IF r # "ok" THEN NoStack
    ELSE IF Named(c, name) # {} THEN CHOOSE s \in Named(c, name) : TRUE
    ELSE NoStack

\* the control plane's answer to POST stacks/create: stack names are unique
ServerCreate(w, name, content, r) ==
    IF r = "transport" THEN [w EXCEPT !.status = 0]
    ELSE IF r = "auth" THEN [w EXCEPT !.status = 401]
    ELSE IF r = "http_error" THEN [w EXCEPT !.status = 500]
    ELSE IF Named(w.cp, name) # {} THEN [w EXCEPT !.status = 409]
    ELSE [w EXCEPT !.cp = @ \cup {[id |-> w.nextId, name |-> name,
                                   status |-> 1, content |-> content]},
                   !.nextId = @ + 1, !.status = 200, !.applied = TRUE]

\* the control plane's answer to PUT stacks/{id}
ServerUpdate(w, target, content, r) ==
    IF r = "transport" THEN [w EXCEPT !.status = 0]
    ELSE IF r = "auth" THEN [w EXCEPT !.status = 401]
    ELSE IF r = "http_error" THEN [w EXCEPT !.status = 500]
    ELSE IF target \notin w.cp THEN [w EXCEPT !.status = 404]
    ELSE [w EXCEPT !.cp = (@ \ {target}) \cup {[target EXCEPT !.content = content]},
                   !.status = 200, !.applied = TRUE]

\* the control plane's answer to DELETE stacks/{id}
ServerDelete(w, target, r) ==
    IF r = "transport" THEN [w EXCEPT !.status = 0]
    ELSE IF r = "auth" THEN [w EXCEPT !.status = 401]
    ELSE IF r = "http_error" THEN [w EXCEPT !.status = 500]
    ELSE IF target \notin w.cp THEN [w EXCEPT !.status = 404]
    ELSE [w EXCEPT !.cp = @ \ {target}, !.status = 204]

\* "response and response.status_code == code"
Succeeded(w, code) ==
    IF w.status = code THEN Ret(w, TRUE, "None") ELSE Ret(w, FALSE, "RequestFailed")

remove_stack(w, name, f) ==
    LET w1 == Issue(w, "GET")
        target == get_stack(w1.cp, name, Answer(w1, f))
    IN  IF target = NoStack THEN Ret(w1, FALSE, "NotFound")
        ELSE LET w2 == Issue(w1, "DELETE")
             IN  Succeeded(ServerDelete(w2, target, Answer(w2, f)), 204)

create_stack(w, name, file, force, f) ==
    LET w1 == Issue(w, "GET")
        existing_stack == get_stack(w1.cp, name, Answer(w1, f))
    IN  IF existing_stack # NoStack /\ ~force THEN Ret(w1, FALSE, "AlreadyExists")
        ELSE LET w2 == IF existing_stack # NoStack /\ force
                       THEN remove_stack(w1, name, f)
                       ELSE w1
             IN  IF ~w2.ok THEN Ret(w2, FALSE, "RemoveFailed")
                 ELSE IF file = "bad" THEN Ret(w2, FALSE, "LoadError")
                 ELSE LET w3 == Issue(w2, "POST")
                      IN  Succeeded(ServerCreate(w3, name, file, Answer(w3, f)), 200)

\* the update request is sent without checking that the stack was found
update_stack_unchecked(w, name, file, f) ==
    LET w1 == Issue(w, "GET")
        target_stack == get_stack(w1.cp, name, Answer(w1, f))
    IN  IF file = "bad" THEN Ret(w1, FALSE, "LoadError")
        ELSE LET w2 == Issue(w1, "PUT")
             IN  Succeeded(ServerUpdate(w2, target_stack, file, Answer(w2, f)), 200)

update_stack(w, name, file, f) ==
    LET w1 == Issue(w, "GET")
        target_stack == get_stack(w1.cp, name, Answer(w1, f))
    IN  IF target_stack = NoStack THEN Ret(w1, FALSE, "NotFound")
        ELSE IF file = "bad" THEN Ret(w1, FALSE, "LoadError")
        ELSE LET w2 == Issue(w1, "PUT")
             IN  Succeeded(ServerUpdate(w2, target_stack, file, Answer(w2, f)), 200)

\* the lookup result is ignored: always create
deploy_stack_always_create(w, name, file, f) ==
    create_stack(Issue(w, "GET"), name, file, FALSE, f)

\* an existing stack is deleted and created again instead of updated
deploy_stack_replace(w, name, file, f) ==
    LET w1 == Issue(w, "GET")
        existing_stack == get_stack(w1.cp, name, Answer(w1, f))
    IN  IF existing_stack # NoStack
        THEN LET w2 == Issue(w1, "DELETE")
                 w3 == Succeeded(ServerDelete(w2, existing_stack, Answer(w2, f)), 204)
                 w4 == Issue(w3, "POST")
             IN  IF ~w3.ok THEN Ret(w3, FALSE, "RemoveFailed")
                 ELSE IF file = "bad" THEN Ret(w3, FALSE, "LoadError")
                 ELSE Succeeded(ServerCreate(w4, name, file, Answer(w4, f)), 200)
        ELSE create_stack(w1, name, file, FALSE, f)

deploy_stack(w, name, file, f) ==
    LET w1 == Issue(w, "GET")
        existing_stack == get_stack(w1.cp, name, Answer(w1, f))
    IN  IF existing_stack # NoStack
        THEN update_stack(w1, name, file, f)
        ELSE create_stack(w1, name, file, FALSE, f)

-----------------------------------------------------------------------------
(* Health Verifier: PortainerStackManager.health_check *)

\* container Status texts, as the words a substring search can find in them:
\* "unhealthy" contains "healthy"
StatusUp        == <<"up">>
StatusHealthy   == <<"up", "healthy">>
StatusUnhealthy == <<"up", "un", "healthy">>
StatusStarting  == <<"up", "health", "starting">>
StatusExited    == <<"exited">>

\* 'word' in health.lower()
Contains(status, word) == \E i \in 1..Len(status) : status[i] = word

ContainerKinds ==
    {[project |-> "self",  State |-> "running", Status |-> StatusUp],
     [project |-> "self",  State |-> "running", Status |-> StatusHealthy],
     [project |-> "self",  State |-> "running", Status |-> StatusUnhealthy],
     [project |-> "self",  State |-> "running", Status |-> StatusStarting],
     [project |-> "self",  State |-> "exited",  Status |-> StatusExited],
     [project |-> "other", State |-> "running", Status |-> StatusUp]}

\* the containers on the host, as far as one health check looks at them
ContainerLists == UNION {[1..n -> ContainerKinds] : n \in 0..MaxListed}

\* GET containers/json without all=true lists the running containers only
DockerList(containers) == SelectSeq(containers, LAMBDA c : c.State # "exited")

RECURSIVE CountHealthy(_)
CountHealthy(cs) ==
    IF cs = <<>> THEN 0
    ELSE LET container == Head(cs)
             counted ==
                 IF container.State = "running"
                 THEN IF Contains(container.Status, "healthy") THEN 1
                      ELSE IF Contains(container.Status, "starting") THEN 0
                      ELSE 1
                 ELSE 0
         IN  counted + CountHealthy(Tail(cs))

\* the stack is healthy when at least 80% of its containers are counted healthy
health_check_threshold(c, name, r1, r2, containers) ==
    LET target_stack == get_stack(c, name, r1)
        stack_containers ==
            SelectSeq(DockerList(containers), LAMBDA k : k.project = "self")
        healthy_count == CountHealthy(stack_containers)
        total_count == Len(stack_containers)
    IN  IF target_stack = NoStack THEN FALSE
        ELSE IF target_stack.status # 1 THEN FALSE
        ELSE IF r2 = "ok" THEN healthy_count * 5 >= total_count * 4
        ELSE FALSE

\* r1 answers GET stacks, r2 answers GET containers/json
health_check(c, name, r1, r2, containers) ==
    LET target_stack == get_stack(c, name, r1)
        stack_containers ==
            SelectSeq(DockerList(containers), LAMBDA k : k.project = "self")
        healthy_count == CountHealthy(stack_containers)
        total_count == Len(stack_containers)
    IN  IF target_stack = NoStack THEN FALSE
        ELSE IF target_stack.status # 1 THEN FALSE
        ELSE IF r2 = "ok" THEN healthy_count = total_count
        ELSE FALSE

\* healthy_count after the loop over the listed containers of the stack
HealthyCount(containers) ==
    CountHealthy(SelectSeq(DockerList(containers), LAMBDA k : k.project = "self"))

\* the requests one health_check issues: the stack lookup, and the container
\* listing when the stack was found active
HealthRequests(c, name, r1) ==
    LET target_stack == get_stack(c, name, r1)
    IN  IF target_stack = NoStack \/ target_stack.status # 1
        THEN <<"GET">> ELSE <<"GET", "GET">>

\* one of the requests of the health check got no answer
HealthTransport(c, name, f) == Transport(HealthRequests(c, name, f[1]), f)

\* the containers on the host when health_check is called directly: up to
\* MaxContainers of them, those of one kind next to each other
KindOrder ==
    <<[project |-> "self",  State |-> "running", Status |-> StatusUp],
      [project |-> "self",  State |-> "running", Status |-> StatusHealthy],
      [project |-> "self",  State |-> "running", Status |-> StatusUnhealthy],
      [project |-> "self",  State |-> "running", Status |-> StatusStarting],
      [project |-> "self",  State |-> "exited",  Status |-> StatusExited],
      [project |-> "other", State |-> "running", Status |-> StatusUp]>>

RECURSIVE Repeat(_, _)
Repeat(x, n) == IF n = 0 THEN <<>> ELSE <<x>> \o Repeat(x, n - 1)

RECURSIVE Expand(_, _)
Expand(counts, k) ==
    IF k > Len(KindOrder) THEN <<>>
    ELSE Repeat(KindOrder[k], counts[k]) \o Expand(counts, k + 1)

RECURSIVE Total(_, _)
Total(counts, k) == IF k > Len(KindOrder) THEN 0 ELSE counts[k] + Total(counts, k + 1)

HostLists ==
    {Expand(counts, 1) :
        counts \in {c \in [1..Len(KindOrder) -> 0..MaxContainers] :
                       Total(c, 1) <= MaxContainers}}

-----------------------------------------------------------------------------
(* Image Builder/Publisher: RegistryBuilder.build_stack, push_stack *)

\* RegistryBuilder.BUILD_STACKS: the services of each stack that needs building
BUILD_STACK_SERVICES(stack_name) ==
    CASE stack_name = "personal-website" -> <<"website", "website-dev">>
      [] stack_name = "flask-api" -> <<"flask-api", "flask-api-dev">>
      [] stack_name = "jupyter" -> <<"jupyterhub">>
      [] OTHER -> <<>>

ServiceSet(stack_name) ==
    {BUILD_STACK_SERVICES(stack_name)[i] : i \in 1..Len(BUILD_STACK_SERVICES(stack_name))}

\* the stacks a builder call can name: those of BUILD_STACKS and one that is not
BuilderNames == BUILD_STACKS \cup {"traefik"}

\* what docker does for one service: the image builds and pushes, the build
\* fails, or the build succeeds and the push fails
Outcomes(stack_name) ==
    [ServiceSet(stack_name) -> {"ok", "build_fails", "push_fails"}]

NoImages == [success_count |-> 0, local |-> {}, published |-> {}, attempted |-> {}]

\* the loop of build_stack over the services, acc being what it has done so far.
\* "docker buildx build --push" leaves the image in the registry only; "docker
\* build" leaves it on the build host, and push_image copies it to the registry
RECURSIVE build_services_fail_fast(_, _, _, _, _)
build_services_fail_fast(svcs, push, multiplatform, o, acc) ==
    IF svcs = <<>> THEN acc
    ELSE LET service_name == Head(svcs)
             tried == [acc EXCEPT !.attempted = @ \cup {service_name}]
             failed == \/ o[service_name] = "build_fails"
                       \/ multiplatform /\ push /\ o[service_name] # "ok"
             next ==
                 IF multiplatform /\ push
                 THEN [tried EXCEPT !.success_count = @ + 1,
                                    !.published = @ \cup {service_name}]
                 ELSE LET built == [tried EXCEPT !.success_count = @ + 1,
                                                 !.local = @ \cup {service_name}]
                      IN  IF push /\ ~multiplatform /\ o[service_name] = "ok"
                          THEN [built EXCEPT !.published = @ \cup {service_name}]
                          ELSE built
         IN  IF failed THEN tried
             ELSE build_services_fail_fast(Tail(svcs), push, multiplatform, o, next)

RECURSIVE build_services(_, _, _, _, _)
build_services(svcs, push, multiplatform, o, acc) ==
    IF svcs = <<>> THEN acc
    ELSE LET service_name == Head(svcs)
             tried == [acc EXCEPT !.attempted = @ \cup {service_name}]
             next ==
                 IF multiplatform /\ push
                 THEN IF o[service_name] = "ok"
                      THEN [tried EXCEPT !.success_count = @ + 1,
                                         !.published = @ \cup {service_name}]
                      ELSE tried
                 ELSE IF o[service_name] # "build_fails"
                      THEN LET built == [tried EXCEPT !.success_count = @ + 1,
                                                      !.local = @ \cup {service_name}]
                           IN  IF push /\ ~multiplatform /\ o[service_name] = "ok"
                               THEN [built EXCEPT !.published = @ \cup {service_name}]
                               ELSE built
                      ELSE tried
         IN  build_services(Tail(svcs), push, multiplatform, o, next)

\* build_stack: False for an unknown stack or a missing compose file, else
\* "success_count == total_services"
build_stack(stack_name, exists, push, multiplatform, o) ==
    IF stack_name \notin BUILD_STACKS \/ ~exists
    THEN [local |-> {}, published |-> {}, attempted |-> {}, result |-> FALSE]
    ELSE LET done == build_services(BUILD_STACK_SERVICES(stack_name), push,
                                    multiplatform, o, NoImages)
         IN  [local |-> done.local, published |-> done.published,
              attempted |-> done.attempted,
              result |-> done.success_count = Len(BUILD_STACK_SERVICES(stack_name))]

\* the loop of push_stack over the services: an image that is on the build host
\* and whose push succeeds reaches the registry
RECURSIVE push_services(_, _, _, _)
push_services(svcs, o, local, acc) ==
    IF svcs = <<>> THEN acc
    ELSE LET service_name == Head(svcs)
             next == IF service_name \in local /\ o[service_name] = "ok"
                     THEN [acc EXCEPT !.success_count = @ + 1,
                                      !.published = @ \cup {service_name}]
                     ELSE acc
         IN  push_services(Tail(svcs), o, local, next)

\* push_stack after a build that left the images `local`; it builds nothing
push_stack(stack_name, login, o, local) ==
    IF stack_name \notin BUILD_STACKS \/ ~login
    THEN [local |-> local, published |-> {}, attempted |-> {}, result |-> FALSE]
    ELSE LET done == push_services(BUILD_STACK_SERVICES(stack_name), o, local,
                                   [NoImages EXCEPT !.local = local])
         IN  [local |-> local, published |-> done.published, attempted |-> {},
              result |-> done.success_count = Len(BUILD_STACK_SERVICES(stack_name))]

\* steps 1 and 2 of deploy_with_registry: build_stack with push for multi-platform
\* targets, else build_stack (with its defaults) and then push_stack
build_and_push(stack_name, exists, multiplatform, login, o) ==
    IF multiplatform
    THEN build_stack(stack_name, exists, TRUE, TRUE, o)
    ELSE LET b == build_stack(stack_name, exists, FALSE, TRUE, o)
         IN  IF ~b.result THEN b
             ELSE [push_stack(stack_name, login, o, b.local)
                      EXCEPT !.attempted = b.attempted]

-----------------------------------------------------------------------------
(* Activation definition: RegistryBuilder.generate_registry_compose *)

self_registry == "ghcr.io"
self_namespace == "mcheli"

\* the version argument: its default and another tag
Versions == {"latest", "v2"}

\* build_config.get('image_name', f"{stack_name}-{service_name}"), a text being
\* the sequence of its parts
image_name(stack_name, service_name) ==
    CASE service_name = "website" -> <<"personal-website">>
      [] service_name = "website-dev" -> <<"personal-website-dev">>
      [] service_name = "flask-api" -> <<"flask">>
      [] service_name = "flask-api-dev" -> <<"flask-dev">>
      [] OTHER -> <<stack_name, "-", service_name>>

\* f"{self.registry}/{self.namespace}/{image_name}:{version}"
_get_image_tag(stack_name, service_name, version) ==
    <<self_registry, "/", self_namespace, "/">> \o image_name(stack_name, service_name)
        \o <<":", version>>

\* service definitions of a compose file: built from a context, built and named,
\* or pulled
ServiceDefs ==
    {[build |-> <<".">>],
     [build |-> <<".">>, image |-> <<"local">>],
     [image |-> <<"postgres", ":", "15">>]}

\* the services a compose file of the stack can define: those configured for
\* building and one that is not
ComposeNames(stack_name) == ServiceSet(stack_name) \cup {"db"}

NoFile == [exists |-> FALSE, services |-> <<>>]

ComposeFiles(stack_name) ==
    {[exists |-> TRUE, services |-> m] :
        m \in UNION {[S -> ServiceDefs] : S \in SUBSET ComposeNames(stack_name)}}

\* the compose file as checked out: every configured service is built from its
\* context, next to a database that is pulled
DefaultCompose(stack_name) ==
    [exists |-> TRUE,
     services |-> [s \in ComposeNames(stack_name) |->
                      IF s = "db" THEN [image |-> <<"postgres", ":", "15">>]
                      ELSE [build |-> <<".">>]]]

\* the directory of a stack: docker-compose.yml and docker-compose.registry.yml
Dir(stack_name, compose) ==
    [stack_name |-> stack_name, compose |-> compose, registry |-> NoFile]

NoDisk == Dir("", NoFile)

\* the loop over the configured services: "del service_def['build']" and
\* "service_def['image'] = image_tag" for those the compose file defines
registry_services(stack_name, version, compose_data) ==
    [s \in DOMAIN compose_data |->
        IF s \in ServiceSet(stack_name)
        THEN LET service_def == compose_data[s]
             IN  [k \in (DOMAIN service_def \ {"build"}) \cup {"image"} |->
                     IF k = "image" THEN _get_image_tag(stack_name, s, version)
                     ELSE service_def[k]]
        ELSE compose_data[s]]

\* the generated definition is written over the compose file it was loaded from
generate_registry_compose_in_place(stack_name, version, dir) ==
    IF stack_name \notin BUILD_STACKS THEN [result |-> "None", dir |-> dir]
    ELSE IF ~dir.compose.exists THEN [result |-> "raised", dir |-> dir]
    ELSE [result |-> "registry_file",
          dir |-> [dir EXCEPT !.compose =
                      [exists |-> TRUE,
                       services |-> registry_services(stack_name, version,
                                                      dir.compose.services)]]]

\* generate_registry_compose: None for an unknown stack, FileNotFoundError for a
\* missing compose file, else docker-compose.registry.yml is written
generate_registry_compose(stack_name, version, dir) ==
    IF stack_name \notin BUILD_STACKS THEN [result |-> "None", dir |-> dir]
    ELSE IF ~dir.compose.exists THEN [result |-> "raised", dir |-> dir]
    ELSE [result |-> "registry_file",
          dir |-> [dir EXCEPT !.registry =
                      [exists |-> TRUE,
                       services |-> registry_services(stack_name, version,
                                                      dir.compose.services)]]]

-----------------------------------------------------------------------------
(* Remote Execution Channel: SSHManager's spacing of connections *)

\* SSHManager.__init__: self._connection_delay, seconds between connections
_connection_delay == 2

\* a time span, counted up to the delay
Capped(t) == IF t > _connection_delay THEN _connection_delay ELSE t

\* SSHManager._wait_for_connection_limit: the time it sleeps when the last
\* connection of this SSHManager started `elapsed` ago
_wait_for_connection_limit(elapsed) ==
    IF elapsed < _connection_delay THEN _connection_delay - elapsed ELSE 0

\* how a script opens a connection: through the singleton ssh_manager, through
\* an SSHManager() it has just constructed, or by running ssh/scp itself
Openers == {"singleton", "fresh", "direct"}

\* time.time() - self._last_connection_time as the opener finds it; a new
\* SSHManager has _last_connection_time = 0
ElapsedFor(how, elapsed) ==
    IF how = "singleton" THEN elapsed ELSE _connection_delay

\* what an opener calls: a method of its SSHManager, or subprocess.run on an
\* ssh command line (without a timeout, as deploy_via_ssh does)
OpsOf(how) ==
    IF how = "direct" THEN {"subprocess"}
    ELSE {"run_ssh_command", "run_multiple_commands"}

\* the time the opener waits before it starts the connection
WaitFor(how, elapsed) ==
    IF how = "direct" THEN 0
    ELSE _wait_for_connection_limit(ElapsedFor(how, elapsed))

-----------------------------------------------------------------------------
(* Initial state *)

IndexOf(name) == CHOOSE i \in 1..Len(STACK_ORDER) : STACK_ORDER[i] = name

\* a stack instance left by an earlier run
Instance(name) == [id |-> IndexOf(name), name |-> name, status |-> 1, content |-> "v1"]

\* control planes a run can start against: for the orchestrator none, half or all
\* of the stacks (left by an earlier run), for the API client any of its names
InitialPlanes(c) ==
    IF c = "stack-api" THEN {{Instance(n) : n \in S} : S \in SUBSET ApiPlaneNames}
    ELSE IF c = "stack-health"
    THEN {{}, {Instance(n) : n \in ApiNames},
          {[Instance(n) EXCEPT !.status = 2] : n \in ApiNames}}
    ELSE IF c = "deploy-all"
    THEN {{Instance(STACK_ORDER[i]) : i \in 1..k} : k \in {0, 3, Len(STACK_ORDER)}}
    ELSE {{}}

NoCall ==
    [op |-> "", name |-> "", file |-> "", force |-> FALSE, ok |-> TRUE, err |-> "None",
     reqs |-> <<>>, answers |-> <<>>, pre |-> {}, applied |-> FALSE,
     repeat |-> FALSE, prevErr |-> "None"]

NoHealth == [name |-> "", containers |-> <<>>, answers |-> <<>>, pre |-> {},
             healthy_count |-> 0, result |-> FALSE]

\* the directories a run can start in: for generate-compose any compose file of
\* any stack, or none; for deploy_with_registry the compose files as checked out
InitialDisks(c) ==
    IF c = "generate-compose"
    THEN {Dir(n, NoFile) : n \in BuilderNames}
         \cup UNION {{Dir(n, compose) : compose \in ComposeFiles(n)} : n \in BUILD_STACKS}
    ELSE IF c = "deploy-registry"
    THEN {Dir(n, NoFile) : n \in BuilderNames}
         \cup {Dir(n, DefaultCompose(n)) : n \in BUILD_STACKS}
    ELSE {NoDisk}

NoGenerated ==
    [stack_name |-> "", version |-> "", result |-> "", before |-> NoDisk,
     repeat |-> FALSE, previous |-> NoFile]

\* the processes that run deploy_stack for the same name at the same time, and
\* the compose file each one deploys
Procs == {1, 2}
RaceName == "minecraft"
RaceFile(p) == IF p = 1 THEN "v1" ELSE "v2"

\* a process about to call deploy_stack: the requests it has issued, what each of
\* its lookups returned, and its result
NoRace == [pc |-> "deploy", reqs |-> <<>>, seen |-> <<>>, target |-> NoStack,
           ok |-> FALSE]

\* no remote command sequence was run
NoRemote == [name |-> "", failAt |-> 0, ran |-> <<>>, before |-> "",
             after |-> "", success |-> FALSE]

\* no call of the channel is running or has returned
NoChannelCall == [op |-> "", opened |-> 0, rc |-> "", result |-> <<>>,
                  raised |-> FALSE]

\* no ssh_session block is open; in a block, `queue` holds for every command of
\* session.commands the number of times it was sent to the remote host, `opened`
\* the connections the session has opened, `inside` whether execute() was called
\* in the block, `raised` whether the block body raised
NoSession == [at |-> "none", queue |-> <<>>, opened |-> 0, inside |-> FALSE,
              raised |-> FALSE]

\* a script about to open its first connection. Times are kept relative and
\* capped at the delay: `elapsed` is time.time() - _last_connection_time of the
\* singleton (0 at construction, so the first call finds the delay long past),
\* `since` the time since the previous connection started, `gap` the time
\* between the starts of the last two connections
NoChannel ==
    [pc |-> "idle", elapsed |-> _connection_delay, since |-> _connection_delay,
     gap |-> _connection_delay, count |-> 0, how |-> "", call |-> NoChannelCall,
     session |-> NoSession]

NoBuild ==
    [op |-> "", stack_name |-> "", push |-> FALSE, multiplatform |-> FALSE,
     services |-> {}, outcomes |-> <<>>, attempted |-> {}, local |-> {},
     published |-> {}, upsert |-> FALSE, result |-> FALSE]

\* every request of the call got a 2xx answer
Clean(answers) == \A i \in 1..Len(answers) : answers[i] = "ok"

\* what one PortainerStackManager call did: its arguments, the requests it issued
\* and their answers, the instances of that name before it, its result, and
\* whether it repeats the call before it (the same deploy_stack, each with every
\* request accepted), with that call's error
CallRecord(op, name, file, force, w, f, before, prev) ==
    LET answers == [i \in 1..Len(w.reqs) |-> f[i]]
    IN  [op |-> op, name |-> name, file |-> file, force |-> force, ok |-> w.ok,
         err |-> w.err, reqs |-> w.reqs, answers |-> answers,
         pre |-> Named(before, name), applied |-> w.applied,
         repeat |-> /\ op = "deploy" /\ prev.op = "deploy"
                    /\ prev.name = name /\ prev.file = file
                    /\ Clean(answers) /\ Clean(prev.answers),
         prevErr |-> prev.err]

Init ==
    /\ cmd \in {"deploy-all", "ssh-deploy-all", "stack-api", "stack-health",
                "build-stack", "deploy-registry", "generate-compose", "upsert-race",
                "ssh-channel"}
    /\ pc = "main"
    /\ idx = 1
    /\ use_registry = FALSE
    /\ state = [b \in Bundles |-> "Absent"]
    /\ success_count = 0
    /\ failed_stacks = <<>>
    /\ exitCode = -1
    /\ cp \in InitialPlanes(cmd)
    /\ nextId = Len(STACK_ORDER) + 1
    /\ last = NoCall
    /\ open = 0
    /\ conn = ""
    /\ sshStep = ""
    /\ actFailed = {}
    /\ calls = 0
    /\ credential = ""
    /\ transportAt = 0
    /\ authAt = 0
    /\ prompts = [b \in Bundles |-> ""]
    /\ viaOpened = 0
    /\ health = NoHealth
    /\ build = NoBuild
    /\ disk \in InitialDisks(cmd)
    /\ generated = NoGenerated
    /\ race = [p \in Procs |-> NoRace]
    /\ channel = NoChannel
    /\ remote = NoRemote

-----------------------------------------------------------------------------
(* Remote Execution Channel: every ssh/scp is a blocking subprocess.run *)

\* subprocess.run starts the ssh/scp child: one more connection is open
OpenConn(n) == n + 1

\* the child is left running when the call returns: its connection stays open
CloseConnLeak(n) == n

\* subprocess.run returns once the child has exited (or was killed on timeout)
CloseConn(n) == n - 1

\* the commands of the deploy command of deploy_via_ssh, joined with "&&" (the
\* echo commands between them always succeed and are left out)
deploy_steps == <<"cd", "cp", "down", "build", "up", "rm">>

\* outcomes of the commands: all succeed (k = 0), or the k-th fails
StepOk(k) == [i \in 1..Len(deploy_steps) |-> i # k]

\* state of the bundle's containers on the remote host after a command that
\* succeeded
Effect(containers, step) ==
    CASE step = "down" -> "stopped"
      [] step = "up" -> "running"
      [] OTHER -> containers

\* the commands joined with ";": each one runs whatever the one before did, and
\* the exit status is that of the last
RECURSIVE run_chain_semicolon(_, _, _)
run_chain_semicolon(i, ok, acc) ==
    IF i > Len(deploy_steps) THEN acc
    ELSE LET step == deploy_steps[i]
             ran == [acc EXCEPT !.ran = Append(@, step)]
         IN  IF ok[i]
             THEN run_chain_semicolon(i + 1, ok,
                      [ran EXCEPT !.containers = Effect(@, step), !.status = 0])
             ELSE run_chain_semicolon(i + 1, ok, [ran EXCEPT !.status = 1])

\* the remote shell running "c1 && c2 && ...": from the i-th command on, a
\* command runs when the one before succeeded, and the exit status is that of
\* the last command run
RECURSIVE run_chain(_, _, _)
run_chain(i, ok, acc) ==
    IF i > Len(deploy_steps) THEN acc
    ELSE LET step == deploy_steps[i]
             ran == [acc EXCEPT !.ran = Append(@, step)]
         IN  IF ok[i]
             THEN run_chain(i + 1, ok,
                      [ran EXCEPT !.containers = Effect(@, step), !.status = 0])
             ELSE [ran EXCEPT !.status = 1]

\* the deploy command on a host where the bundle's containers are `containers`
deploy_cmd(containers, k) ==
    run_chain(1, StepOk(k), [ran |-> <<>>, containers |-> containers, status |-> 0])

\* SSHManager.run_ssh_command: the triple it returns for the child's outcome
run_ssh_command(rc) ==
    IF rc = "timeout" THEN <<FALSE, "", "SSH command timed out">>
    ELSE <<rc = "zero", "stdout", "stderr">>

\* SSHManager.run_multiple_commands: the triple it returns
run_multiple_commands(rc) ==
    IF rc = "timeout" THEN <<FALSE, "", "SSH commands timed out">>
    ELSE <<rc = "zero", "stdout", "stderr">>

\* outcomes of a remote command: exit status 0, non-zero (the command failed),
\* ssh's own exit status 255 (no connection: refused or ConnectTimeout), or
\* killed on timeout
ExitKinds == {"zero", "nonzero", "refused", "timeout"}

\* the outcomes in which the remote host did not answer
NoAnswer == {"refused", "timeout"}

-----------------------------------------------------------------------------
(* PortainerStackManager called directly (portainer_stack_manager.py main, or
   another script using the class): a sequence of calls on the control plane *)

ApiDone(op, name, file, force, w, f) ==
    /\ cp' = w.cp
    /\ nextId' = w.nextId
    /\ last' = CallRecord(op, name, file, force, w, f, cp, last)
    /\ calls' = calls + 1
    /\ UNCHANGED <<cmd, pc, idx, use_registry, state, success_count, failed_stacks,
                   exitCode, open, conn, sshStep, actFailed,
                   credential, transportAt, authAt, prompts, viaOpened, health, build,
                   disk, generated, race, channel, remote>>

ApiCreate ==
    /\ cmd = "stack-api" /\ calls < MaxCalls
    /\ \E name \in ApiNames, file \in Files, force \in BOOLEAN, f \in Faults(4) :
          ApiDone("create", name, file, force,
                  create_stack(World(cp, nextId), name, file, force, f), f)

ApiUpdate ==
    /\ cmd = "stack-api" /\ calls < MaxCalls
    /\ \E name \in ApiNames, file \in Files, f \in Faults(3) :
          ApiDone("update", name, file, FALSE,
                  update_stack(World(cp, nextId), name, file, f), f)

ApiDeploy ==
    /\ cmd = "stack-api" /\ calls < MaxCalls
    /\ \E name \in ApiNames, file \in Files, f \in Faults(3) :
          ApiDone("deploy", name, file, FALSE,
                  deploy_stack(World(cp, nextId), name, file, f), f)

ApiRemove ==
    /\ cmd = "stack-api" /\ calls < MaxCalls
    /\ \E name \in ApiNames, f \in Faults(2) :
          ApiDone("remove", name, "", FALSE,
                  remove_stack(World(cp, nextId), name, f), f)

-----------------------------------------------------------------------------
(* InfrastructureManager: main, deploy-all *)

Exit(code) == /\ exitCode' = code /\ pc' = "done"

\* the run goes on whatever the credential is
CredentialIgnored(cred) == TRUE

\* PortainerStackManager.__init__: "if not all([portainer_url, api_key]): raise";
\* a credential that is set is not tried against the control plane
CredentialSet(cred) == cred # "missing"

\* main: the constructor raises without credentials (exit 1); otherwise the
\* flags --registry and --clean decide the mode and whether cleanup runs first
InfraMain ==
    /\ cmd = "deploy-all" /\ pc = "main"
    /\ \E cred \in {"missing", "rejected", "valid"}, registry \in BOOLEAN,
          clean_first \in BOOLEAN :
          /\ credential' = cred
          /\ IF ~CredentialSet(cred)
             THEN /\ Exit(1)
                  /\ UNCHANGED use_registry
             ELSE /\ use_registry' = registry
                  /\ pc' = IF clean_first THEN "cleanup" ELSE "loop"
                  /\ UNCHANGED exitCode
    /\ UNCHANGED <<cmd, idx, state, success_count, failed_stacks, cp, nextId, last,
                   open, conn, sshStep, actFailed, calls,
                   transportAt, authAt, prompts, viaOpened, health, build,
                   disk, generated, race, channel, remote>>

\* cleanup_ssh_deployed_stacks: one ssh per unmanaged stack
CleanupOpen ==
    /\ cmd = "deploy-all" /\ pc = "cleanup" /\ conn = ""
    /\ open' = OpenConn(open)
    /\ conn' = "cleanup"
    /\ UNCHANGED <<cmd, pc, idx, use_registry, state, success_count, failed_stacks,
                   exitCode, cp, nextId, last, sshStep, actFailed, calls,
                   credential, transportAt, authAt, prompts, viaOpened, health, build,
                   disk, generated, race, channel, remote>>

\* the result only changes what is printed
CleanupClose ==
    /\ cmd = "deploy-all" /\ pc = "cleanup" /\ conn = "cleanup"
    /\ open' = CloseConn(open)
    /\ conn' = ""
    /\ IF idx < Len(unmanaged_stacks)
       THEN /\ idx' = idx + 1 /\ UNCHANGED pc
       ELSE /\ idx' = 1 /\ pc' = "loop"
    /\ UNCHANGED <<cmd, use_registry, state, success_count, failed_stacks,
                   exitCode, cp, nextId, last, sshStep, actFailed, calls,
                   credential, transportAt, authAt, prompts, viaOpened, health, build,
                   disk, generated, race, channel, remote>>

\* the loop skips an entry
NextStackSkip(i) == i + 2

\* "for ... in": the loop goes on with the next entry of the list
NextStack(i) == i + 1

\* the deployment method deploy_all_stacks chooses for a stack
Method(registry, stack_name) ==
    IF registry THEN "portainer"
    ELSE IF stack_name \in BUILD_STACKS THEN "ssh"
    ELSE "portainer"

\* top of the loop body: a stack whose compose file is missing is failed and
\* skipped, otherwise its deployment starts
StartStack ==
    /\ cmd = "deploy-all" /\ pc = "loop" /\ idx <= Len(STACK_ORDER)
    /\ LET stack_name == STACK_ORDER[idx]
       IN  \E exists \in BOOLEAN :
              IF ~exists
              THEN /\ failed_stacks' = Append(failed_stacks, stack_name)
                   /\ state' = [state EXCEPT ![stack_name] = "Failed"]
                   /\ actFailed' = actFailed \cup {stack_name}
                   /\ idx' = NextStack(idx)
                   /\ UNCHANGED pc
              ELSE /\ state' = [state EXCEPT ![stack_name] = "Activating"]
                   /\ pc' = Method(use_registry, stack_name)
                   /\ UNCHANGED <<failed_stacks, idx, actFailed>>
    /\ UNCHANGED <<cmd, use_registry, success_count, exitCode, cp, nextId, last,
                   open, conn, sshStep, calls,
                   credential, transportAt, authAt, prompts, viaOpened, health, build,
                   disk, generated, race, channel, remote>>

\* the loop goes on without the stabilisation sleep and the health check
SucceedNoWait(stack_name) ==
    /\ success_count' = success_count + 1
    /\ idx' = NextStack(idx)
    /\ pc' = "loop"
    /\ UNCHANGED <<failed_stacks, state>>

\* "if success:" of deploy_all_stacks, up to the stabilisation sleep
Succeed(stack_name) ==
    /\ success_count' = success_count + 1
    /\ pc' = "stabilize"
    /\ UNCHANGED <<failed_stacks, state, idx>>

\* a failed stack ends the loop: no later stack is deployed
FailBreak(stack_name) ==
    /\ failed_stacks' = Append(failed_stacks, stack_name)
    /\ state' = [state EXCEPT ![stack_name] = "Failed"]
    /\ idx' = Len(STACK_ORDER) + 1
    /\ pc' = "loop"
    /\ UNCHANGED success_count

\* "else:" of deploy_all_stacks; the loop goes on with the next stack
Fail(stack_name) ==
    /\ failed_stacks' = Append(failed_stacks, stack_name)
    /\ state' = [state EXCEPT ![stack_name] = "Failed"]
    /\ idx' = NextStack(idx)
    /\ pc' = "loop"
    /\ UNCHANGED success_count

\* any return value is taken for success
ReportedAlways(ok) == TRUE

\* the result deploy_all_stacks branches on
Reported(ok) == ok

\* the position of the first bundle whose deployment saw a failure of one kind
FirstAt(at, i, failed) == IF at = 0 /\ failed THEN i ELSE at

\* stack_manager.deploy_stack(stack_name, compose_file)
DeployPortainer ==
    /\ cmd = "deploy-all" /\ pc = "portainer"
    /\ LET stack_name == STACK_ORDER[idx]
       IN  \E file \in {"bad", "v1"}, f \in Answers(credential, 3) :
              LET w == deploy_stack(World(cp, nextId), stack_name, file, f)
              IN  /\ cp' = w.cp
                  /\ nextId' = w.nextId
                  /\ transportAt' = FirstAt(transportAt, idx, Transport(w.reqs, f))
                  /\ authAt' = FirstAt(authAt, idx, Unauthorized(w.reqs, f))
                  /\ actFailed' = IF w.applied THEN actFailed
                                  ELSE actFailed \cup {stack_name}
                  /\ IF Reported(w.ok) THEN Succeed(stack_name) ELSE Fail(stack_name)
    /\ UNCHANGED <<cmd, use_registry, exitCode, last, open, conn, sshStep, calls,
                   credential, prompts, viaOpened, health, build, disk, generated, race,
                   channel, remote>>

\* _deploy_with_ssh: SSHManager.run_ssh_command opens the connection
SshDeployOpen ==
    /\ cmd = "deploy-all" /\ pc = "ssh" /\ conn = ""
    /\ open' = OpenConn(open)
    /\ conn' = "deploy"
    /\ UNCHANGED <<cmd, pc, idx, use_registry, state, success_count, failed_stacks,
                   exitCode, cp, nextId, last, sshStep, actFailed, calls,
                   credential, transportAt, authAt, prompts, viaOpened, health, build,
                   disk, generated, race, channel, remote>>

\* _deploy_with_ssh reads result.returncode of the triple run_ssh_command
\* returned: a tuple has no such attribute, the AttributeError is caught by
\* "except Exception" and the method returns False
_deploy_with_ssh(result) ==
    LET has_returncode == FALSE
    IN  IF has_returncode THEN result[1] ELSE FALSE

SshDeployClose ==
    /\ cmd = "deploy-all" /\ pc = "ssh" /\ conn = "deploy"
    /\ open' = CloseConn(open)
    /\ conn' = ""
    /\ LET stack_name == STACK_ORDER[idx]
       IN  \E rc \in ExitKinds :
              /\ actFailed' = IF rc = "zero" THEN actFailed
                              ELSE actFailed \cup {stack_name}
              /\ transportAt' = FirstAt(transportAt, idx, rc \in NoAnswer)
              /\ IF Reported(_deploy_with_ssh(run_ssh_command(rc)))
                 THEN Succeed(stack_name) ELSE Fail(stack_name)
    /\ UNCHANGED <<cmd, use_registry, exitCode, cp, nextId, last, sshStep, calls,
                   credential, authAt, prompts, viaOpened, health, build,
                   disk, generated, race, channel, remote>>

\* time.sleep(15): the stack is left to stabilise
Stabilize ==
    /\ cmd = "deploy-all" /\ pc = "stabilize"
    /\ pc' = "health"
    /\ UNCHANGED <<cmd, idx, use_registry, state, success_count, failed_stacks,
                   exitCode, cp, nextId, last, open, conn, sshStep, actFailed, calls,
                   credential, transportAt, authAt, prompts, viaOpened, health, build,
                   disk, generated, race, channel, remote>>

\* a failed health check fails the stack
HealthCheckBlocking ==
    /\ cmd = "deploy-all" /\ pc = "health"
    /\ LET stack_name == STACK_ORDER[idx]
       IN  \E f \in Answers(credential, 2), containers \in ContainerLists :
              LET healthy == health_check(cp, stack_name, f[1], f[2], containers)
              IN  /\ state' = [state EXCEPT ![stack_name] =
                                  IF healthy THEN "Active" ELSE "Unhealthy"]
                  /\ failed_stacks' = IF healthy THEN failed_stacks
                                      ELSE Append(failed_stacks, stack_name)
                  /\ transportAt' = FirstAt(transportAt, idx,
                                        HealthTransport(cp, stack_name, f))
                  /\ authAt' = FirstAt(authAt, idx, f[1] = "auth")
    /\ idx' = NextStack(idx)
    /\ pc' = "loop"
    /\ UNCHANGED <<cmd, use_registry, success_count, exitCode, cp,
                   nextId, last, open, conn, sshStep, actFailed, calls,
                   credential, prompts, viaOpened, health, build, disk, generated, race,
                   channel, remote>>

\* the quick health check: a failed one is a warning
HealthCheck ==
    /\ cmd = "deploy-all" /\ pc = "health"
    /\ LET stack_name == STACK_ORDER[idx]
       IN  \E f \in Answers(credential, 2), containers \in ContainerLists :
              /\ state' = [state EXCEPT ![stack_name] =
                              IF health_check(cp, stack_name, f[1], f[2], containers)
                              THEN "Active" ELSE "Unhealthy"]
              /\ transportAt' = FirstAt(transportAt, idx,
                                    HealthTransport(cp, stack_name, f))
              /\ authAt' = FirstAt(authAt, idx, f[1] = "auth")
    /\ idx' = NextStack(idx)
    /\ pc' = "loop"
    /\ UNCHANGED <<cmd, use_registry, success_count, failed_stacks, exitCode, cp,
                   nextId, last, open, conn, sshStep, actFailed, calls,
                   credential, prompts, viaOpened, health, build, disk, generated, race,
                   channel, remote>>

\* the failures are not looked at
deploy_all_stacks_result_always(failed) == TRUE

\* what deploy_all_stacks returns
deploy_all_stacks_result(failed) == failed = <<>>

\* sys.exit(0 if success else 1)
ExitCodeOf(success) == IF success THEN 0 ELSE 1

\* final summary, return, and main's sys.exit
Summary ==
    /\ cmd = "deploy-all" /\ pc = "loop" /\ idx > Len(STACK_ORDER)
    /\ Exit(ExitCodeOf(deploy_all_stacks_result(failed_stacks)))
    /\ UNCHANGED <<cmd, idx, use_registry, state, success_count, failed_stacks,
                   cp, nextId, last, open, conn, sshStep, actFailed, calls,
                   credential, transportAt, authAt, prompts, viaOpened, health, build,
                   disk, generated, race, channel, remote>>

-----------------------------------------------------------------------------
(* ManagedSSHDeployer: main, deploy_all; deploy_via_ssh runs as its subprocess *)

\* check_ssh_connectivity: without SSH_HOST/SSH_USER it fails at once, otherwise
\* it opens the test connection
SshMain ==
    /\ cmd = "ssh-deploy-all" /\ pc = "main"
    /\ \E configured \in BOOLEAN :
          IF ~configured
          THEN /\ Exit(1)
               /\ UNCHANGED <<open, conn>>
          ELSE /\ open' = OpenConn(open)
               /\ conn' = "check"
               /\ pc' = "check"
               /\ UNCHANGED exitCode
    /\ UNCHANGED <<cmd, idx, use_registry, state, success_count, failed_stacks,
                   cp, nextId, last, sshStep, actFailed, calls,
                   credential, transportAt, authAt, prompts, viaOpened, health, build,
                   disk, generated, race, channel, remote>>

\* returncode == 0 and 'SSH_OK' in stdout, else deploy_all returns False
CheckClose ==
    /\ cmd = "ssh-deploy-all" /\ pc = "check" /\ conn = "check"
    /\ open' = CloseConn(open)
    /\ conn' = ""
    /\ \E rc \in {"zero", "nonzero"} :
          IF rc = "zero"
          THEN /\ pc' = "svc" /\ UNCHANGED exitCode
          ELSE Exit(1)
    /\ UNCHANGED <<cmd, idx, use_registry, state, success_count, failed_stacks,
                   cp, nextId, last, sshStep, actFailed, calls,
                   credential, transportAt, authAt, prompts, viaOpened, health, build,
                   disk, generated, race, channel, remote>>

\* deploy_service failed: the service joins failed_services and the operator is asked
FailService(name) ==
    /\ failed_stacks' = Append(failed_stacks, name)
    /\ state' = [state EXCEPT ![name] = "Failed"]
    /\ actFailed' = actFailed \cup {name}
    /\ pc' = "prompt"

\* deploy_service starts deploy_via_ssh.py, which returns False at once when the
\* compose file is missing
ServiceStart ==
    /\ cmd = "ssh-deploy-all" /\ pc = "svc" /\ idx <= Len(services)
    /\ LET name == services[idx]
       IN  \E exists \in BOOLEAN :
              IF exists
              THEN /\ state' = [state EXCEPT ![name] = "Building"]
                   /\ pc' = "via"
                   /\ sshStep' = "mkdir"
                   /\ UNCHANGED <<failed_stacks, actFailed>>
              ELSE /\ FailService(name)
                   /\ UNCHANGED sshStep
    /\ viaOpened' = 0
    /\ remote' = NoRemote
    /\ UNCHANGED <<cmd, idx, use_registry, success_count, exitCode, cp, nextId, last,
                   open, conn, calls,
                   credential, transportAt, authAt, prompts, health, build,
                   disk, generated, race, channel>>

\* deploy_via_ssh: each step is its own ssh or scp subprocess
ViaOpen ==
    /\ cmd = "ssh-deploy-all" /\ pc = "via" /\ conn = ""
    /\ open' = OpenConn(open)
    /\ conn' = sshStep
    /\ viaOpened' = viaOpened + 1
    /\ UNCHANGED <<cmd, pc, idx, use_registry, state, success_count, failed_stacks,
                   exitCode, cp, nextId, last, sshStep, actFailed, calls,
                   credential, transportAt, authAt, prompts, health, build,
                   disk, generated, race, channel, remote>>

\* the step after `step` ended with rc; backend/, frontend/ and .env are copied
\* when they exist, and only a failed compose copy or deploy command fails the run
NextVia(step, rc, backend, frontend, env) ==
    LET afterFrontend == IF env THEN "scp_env" ELSE "deploy"
        afterBackend == IF frontend THEN "scp_frontend" ELSE afterFrontend
        afterCompose == IF backend THEN "scp_backend" ELSE afterBackend
    IN  CASE step = "mkdir" -> "scp_compose"
          [] step = "scp_compose" -> IF rc = "zero" THEN afterCompose ELSE "failed"
          [] step = "scp_backend" -> afterBackend
          [] step = "scp_frontend" -> afterFrontend
          [] step = "scp_env" -> "deploy"
          [] step = "deploy" -> IF rc = "zero" THEN "succeeded" ELSE "failed"

ViaClose ==
    /\ cmd = "ssh-deploy-all" /\ pc = "via" /\ conn # ""
    /\ open' = CloseConn(open)
    /\ conn' = ""
    /\ LET name == services[idx]
       IN  \E rc \in {"zero", "nonzero", "refused"}, backend \in BOOLEAN,
              frontend \in BOOLEAN, env \in BOOLEAN,
              k \in 0..Len(deploy_steps), containers \in {"running", "stopped"} :
              LET next == NextVia(sshStep, rc, backend, frontend, env)
                  sent == sshStep = "deploy" /\ rc # "refused"
                  done == deploy_cmd(containers, k)
              IN  \* ssh exits with the status of the remote command sequence
                  /\ IF sent THEN (rc = "zero") = (done.status = 0)
                     ELSE k = 0 /\ containers = "running"
                  /\ remote' = IF sent
                               THEN [name |-> name, failAt |-> k, ran |-> done.ran,
                                     before |-> containers,
                                     after |-> done.containers,
                                     success |-> next = "succeeded"]
                               ELSE remote
                  /\ transportAt' = FirstAt(transportAt, idx, rc \in NoAnswer)
                  /\ IF next = "failed"
                     THEN /\ FailService(name)
                          /\ sshStep' = ""
                     ELSE IF next = "succeeded"
                     THEN /\ state' = [state EXCEPT ![name] = "Activating"]
                          /\ pc' = "svc_wait"
                          /\ sshStep' = ""
                          /\ UNCHANGED <<failed_stacks, actFailed>>
                     ELSE /\ sshStep' = next
                          /\ UNCHANGED <<pc, state, failed_stacks, actFailed>>
    /\ UNCHANGED <<cmd, idx, use_registry, success_count, exitCode, cp, nextId, last,
                   calls,
                   credential, authAt, prompts, viaOpened, health, build,
                   disk, generated, race, channel>>

\* time.sleep(wait_time), then deploy_service returns True
ServiceWait ==
    /\ cmd = "ssh-deploy-all" /\ pc = "svc_wait"
    /\ state' = [state EXCEPT ![services[idx]] = "Active"]
    /\ idx' = NextStack(idx)
    /\ pc' = "svc"
    /\ UNCHANGED <<cmd, use_registry, success_count, failed_stacks, exitCode, cp,
                   nextId, last, open, conn, sshStep, actFailed, calls,
                   credential, transportAt, authAt, prompts, viaOpened, health, build,
                   disk, generated, race, channel, remote>>

\* the operator's answer is not looked at
BreakNever(response) == FALSE

\* "if response != 'y': break"
Break(response) == response # "y"

\* "Continue with remaining services? [y/N]"
Prompt ==
    /\ cmd = "ssh-deploy-all" /\ pc = "prompt"
    /\ \E response \in {"y", "n"} :
          /\ prompts' = [prompts EXCEPT ![services[idx]] = response]
          /\ IF Break(response)
             THEN /\ pc' = "verify" /\ UNCHANGED idx
             ELSE /\ pc' = "svc" /\ idx' = NextStack(idx)
    /\ UNCHANGED <<cmd, use_registry, state, success_count, failed_stacks, exitCode,
                   cp, nextId, last, open, conn, sshStep, actFailed, calls,
                   credential, transportAt, authAt, viaOpened, health, build,
                   disk, generated, race, channel, remote>>

\* verify_services, after the loop ended or was left
VerifyOpen ==
    /\ cmd = "ssh-deploy-all" /\ conn = ""
    /\ \/ pc = "verify"
       \/ pc = "svc" /\ idx > Len(services)
    /\ open' = OpenConn(open)
    /\ conn' = "verify"
    /\ pc' = "verify"
    /\ UNCHANGED <<cmd, idx, use_registry, state, success_count, failed_stacks,
                   exitCode, cp, nextId, last, sshStep, actFailed, calls,
                   credential, transportAt, authAt, prompts, viaOpened, health, build,
                   disk, generated, race, channel, remote>>

VerifyClose ==
    /\ cmd = "ssh-deploy-all" /\ pc = "verify" /\ conn = "verify"
    /\ open' = CloseConn(open)
    /\ conn' = ""
    /\ pc' = "ssl"
    /\ idx' = 1
    /\ UNCHANGED <<cmd, use_registry, state, success_count, failed_stacks,
                   exitCode, cp, nextId, last, sshStep, actFailed, calls,
                   credential, transportAt, authAt, prompts, viaOpened, health, build,
                   disk, generated, race, channel, remote>>

\* test_ssl_endpoints: one ssh per endpoint
SslOpen ==
    /\ cmd = "ssh-deploy-all" /\ pc = "ssl" /\ conn = "" /\ idx <= Len(endpoints)
    /\ open' = OpenConn(open)
    /\ conn' = "ssl"
    /\ UNCHANGED <<cmd, pc, idx, use_registry, state, success_count, failed_stacks,
                   exitCode, cp, nextId, last, sshStep, actFailed, calls,
                   credential, transportAt, authAt, prompts, viaOpened, health, build,
                   disk, generated, race, channel, remote>>

SslClose ==
    /\ cmd = "ssh-deploy-all" /\ pc = "ssl" /\ conn = "ssl"
    /\ open' = CloseConn(open)
    /\ conn' = ""
    /\ idx' = idx + 1
    /\ UNCHANGED <<cmd, pc, use_registry, state, success_count, failed_stacks,
                   exitCode, cp, nextId, last, sshStep, actFailed, calls,
                   credential, transportAt, authAt, prompts, viaOpened, health, build,
                   disk, generated, race, channel, remote>>

\* what deploy_all returns
deploy_all_result(failed_services) == Len(failed_services) = 0

SshReturn ==
    /\ cmd = "ssh-deploy-all" /\ pc = "ssl" /\ conn = "" /\ idx > Len(endpoints)
    /\ Exit(ExitCodeOf(deploy_all_result(failed_stacks)))
    /\ UNCHANGED <<cmd, idx, use_registry, state, success_count, failed_stacks,
                   cp, nextId, last, open, conn, sshStep, actFailed, calls,
                   credential, transportAt, authAt, prompts, viaOpened, health, build,
                   disk, generated, race, channel, remote>>

-----------------------------------------------------------------------------
(* PortainerStackManager main, command "health": one health_check call *)

ApiHealth ==
    /\ cmd = "stack-health" /\ pc = "main"
    /\ \E name \in ApiNames, f \in Faults(2), containers \in HostLists :
          LET healthy == health_check(cp, name, f[1], f[2], containers)
          IN  /\ health' = [name |-> name, containers |-> containers,
                            answers |-> f, pre |-> Named(cp, name),
                            healthy_count |-> HealthyCount(containers),
                            result |-> healthy]
              /\ Exit(ExitCodeOf(healthy))
    /\ UNCHANGED <<cmd, idx, use_registry, state, success_count, failed_stacks,
                   cp, nextId, last, open, conn, sshStep, actFailed, calls,
                   credential, transportAt, authAt, prompts, viaOpened, build,
                   disk, generated, race, channel, remote>>

-----------------------------------------------------------------------------
(* Image Builder/Publisher: RegistryBuilder *)

\* a build_stack or deploy_with_registry call: its arguments, what docker did
\* for each service, the services it ran a build for, the images it left on the
\* build host and in the registry, its result, and whether it went on to the
\* control-plane upsert
BuildRecord(op, stack_name, push, multiplatform, o, b, upsert, ok) ==
    [op |-> op, stack_name |-> stack_name, push |-> push,
     multiplatform |-> multiplatform, services |-> ServiceSet(stack_name),
     outcomes |-> o, attempted |-> b.attempted,
     local |-> b.local, published |-> b.published, upsert |-> upsert,
     result |-> ok]

\* registry_builder.py main, commands build / build-and-push, or another script
\* calling build_stack
BuildStack ==
    /\ cmd = "build-stack" /\ pc = "main"
    /\ \E stack_name \in BuilderNames, exists \in BOOLEAN, push \in BOOLEAN,
          multiplatform \in BOOLEAN :
       \E o \in Outcomes(stack_name) :
          LET b == build_stack(stack_name, exists, push, multiplatform, o)
          IN  /\ build' = BuildRecord("build_stack", stack_name, push, multiplatform,
                                      o, b, FALSE, b.result)
              /\ Exit(ExitCodeOf(b.result))
    /\ UNCHANGED <<cmd, idx, use_registry, state, success_count, failed_stacks,
                   cp, nextId, last, open, conn, sshStep, actFailed, calls,
                   credential, transportAt, authAt, prompts, viaOpened, health,
                   disk, generated, race, channel, remote>>

\* deploy_with_registry: build and push, generate the registry compose file,
\* deploy_stack
DeployWithRegistry ==
    /\ cmd = "deploy-registry" /\ pc = "main"
    /\ \E multiplatform \in BOOLEAN, login \in BOOLEAN, f \in Faults(3),
          o \in Outcomes(disk.stack_name) :
          LET stack_name == disk.stack_name
              b == build_and_push(stack_name, disk.compose.exists, multiplatform,
                                  login, o)
              g == IF b.result
                   THEN generate_registry_compose(stack_name, "latest", disk)
                   ELSE [result |-> "None", dir |-> disk]
              w == IF g.result = "registry_file"
                   THEN deploy_stack(World(cp, nextId), stack_name, "v2", f)
                   ELSE Ret(World(cp, nextId), FALSE, "BuildFailed")
          IN  /\ build' = BuildRecord("deploy_with_registry", stack_name, TRUE,
                                      multiplatform, o, b,
                                      g.result = "registry_file", w.ok)
              /\ disk' = g.dir
              /\ cp' = w.cp
              /\ nextId' = w.nextId
              /\ Exit(ExitCodeOf(w.ok))
    /\ UNCHANGED <<cmd, idx, use_registry, state, success_count, failed_stacks,
                   last, open, conn, sshStep, actFailed, calls,
                   credential, transportAt, authAt, prompts, viaOpened, health,
                   generated, race, channel, remote>>

\* registry_builder.py main, command generate-compose, run once or again in the
\* same directory
GenerateCompose ==
    /\ cmd = "generate-compose" /\ calls < MaxCalls
    /\ \E version \in Versions :
          LET g == generate_registry_compose(disk.stack_name, version, disk)
          IN  /\ disk' = g.dir
              /\ generated' =
                    [stack_name |-> disk.stack_name, version |-> version,
                     result |-> g.result, before |-> disk,
                     repeat |-> generated.version = version,
                     previous |-> disk.registry]
              /\ exitCode' = ExitCodeOf(g.result = "registry_file")
    /\ calls' = calls + 1
    /\ UNCHANGED <<cmd, pc, idx, use_registry, state, success_count, failed_stacks,
                   cp, nextId, last, open, conn, sshStep, actFailed,
                   credential, transportAt, authAt, prompts, viaOpened, health, build,
                   race, channel, remote>>

-----------------------------------------------------------------------------
(* Two processes each running PortainerStackManager.deploy_stack for the same
   name: every HTTP request is a step of its own, and nothing orders the
   requests of one process against those of the other *)

\* what get_stack returned to the caller
Observed(c, name, r) ==
    IF r # "ok" THEN "failed"
    ELSE IF Named(c, name) # {} THEN "present" ELSE "absent"

RaceFrame ==
    UNCHANGED <<cmd, pc, idx, use_registry, state, success_count, failed_stacks,
                exitCode, last, open, conn, sshStep, actFailed, calls,
                credential, transportAt, authAt, prompts, viaOpened, health, build,
                disk, generated, channel, remote>>

\* a lookup of process p answered r, after which p is at `next`
RaceLooked(p, r, next, ok) ==
    /\ race' = [race EXCEPT ![p] =
                   [@ EXCEPT !.pc = next,
                             !.reqs = Append(@, "GET"),
                             !.seen = Append(@, Observed(cp, RaceName, r)),
                             !.target = get_stack(cp, RaceName, r),
                             !.ok = ok]]
    /\ UNCHANGED <<cp, nextId>>

\* a change request of process p was answered: w is the call after the answer
RaceActed(p, kind, w) ==
    /\ race' = [race EXCEPT ![p] =
                   [@ EXCEPT !.pc = "done", !.reqs = Append(@, kind), !.ok = w.ok]]
    /\ cp' = w.cp
    /\ nextId' = w.nextId

\* deploy_stack: existing_stack = self.get_stack(stack_name)
RaceDeploy(p) ==
    /\ cmd = "upsert-race" /\ race[p].pc = "deploy"
    /\ \E r \in Resp :
          RaceLooked(p, r, IF get_stack(cp, RaceName, r) # NoStack
                           THEN "update" ELSE "create", FALSE)
    /\ RaceFrame

\* create_stack: existing_stack = self.get_stack(stack_name), force being False
RaceCreateCheck(p) ==
    /\ cmd = "upsert-race" /\ race[p].pc = "create"
    /\ \E r \in Resp :
          RaceLooked(p, r, IF get_stack(cp, RaceName, r) # NoStack
                           THEN "done" ELSE "post", FALSE)
    /\ RaceFrame

\* the create request is sent only if the name is still free when it is sent
RaceCreateIfFree(p) ==
    /\ cmd = "upsert-race" /\ race[p].pc = "post"
    /\ \E r \in Resp :
          IF Named(cp, RaceName) # {}
          THEN /\ race' = [race EXCEPT ![p] = [@ EXCEPT !.pc = "done"]]
               /\ UNCHANGED <<cp, nextId>>
          ELSE LET w == Issue(World(cp, nextId), "POST")
               IN  RaceActed(p, "POST",
                             Succeeded(ServerCreate(w, RaceName, RaceFile(p), r), 200))
    /\ RaceFrame

\* create_stack: POST stacks/create
RaceCreate(p) ==
    /\ cmd = "upsert-race" /\ race[p].pc = "post"
    /\ \E r \in Resp :
          LET w == Issue(World(cp, nextId), "POST")
          IN  RaceActed(p, "POST",
                        Succeeded(ServerCreate(w, RaceName, RaceFile(p), r), 200))
    /\ RaceFrame

\* update_stack: target_stack = self.get_stack(stack_name)
RaceUpdateCheck(p) ==
    /\ cmd = "upsert-race" /\ race[p].pc = "update"
    /\ \E r \in Resp :
          RaceLooked(p, r, IF get_stack(cp, RaceName, r) # NoStack
                           THEN "put" ELSE "done", FALSE)
    /\ RaceFrame

\* update_stack: PUT stacks/{id}
RaceUpdate(p) ==
    /\ cmd = "upsert-race" /\ race[p].pc = "put"
    /\ \E r \in Resp :
          LET w == Issue(World(cp, nextId), "PUT")
          IN  RaceActed(p, "PUT",
                        Succeeded(ServerUpdate(w, race[p].target, RaceFile(p), r), 200))
    /\ RaceFrame

-----------------------------------------------------------------------------
(* Remote Execution Channel in use: a script opening one connection after the
   other, each through ssh_manager, a new SSHManager(), or subprocess.run *)

ChannelFrame ==
    UNCHANGED <<cmd, pc, idx, use_registry, state, success_count, failed_stacks,
                exitCode, cp, nextId, last, conn, sshStep, actFailed, calls,
                credential, transportAt, authAt, prompts, viaOpened, health, build,
                disk, generated, race, remote>>

\* the opener waits as long as its SSHManager tells it to, then starts the child
Started(how, op) ==
    LET waited == WaitFor(how, channel.elapsed)
    IN  [channel EXCEPT
            !.pc = "running", !.how = how, !.count = @ + 1,
            !.gap = Capped(channel.since + waited),
            !.since = 0,
            !.elapsed = IF how = "singleton" THEN 0
                        ELSE Capped(@ + waited),
            !.call = [op |-> op, opened |-> 1, rc |-> "",
                      result |-> <<>>, raised |-> FALSE]]

ChannelStart(how, op) ==
    /\ channel' = Started(how, op)
    /\ open' = OpenConn(open)

\* run_ssh_command / run_multiple_commands, or an ssh command run directly
ChannelOpen ==
    /\ cmd = "ssh-channel" /\ channel.pc = "idle"
    /\ channel.session.at \in {"none", "finished"}
    /\ channel.count < MaxConnections
    /\ \E how \in Openers : \E op \in OpsOf(how) : ChannelStart(how, op)
    /\ ChannelFrame

\* what the call returns when its child ended with rc
ChannelResult(op, rc) ==
    IF op = "run_multiple_commands" THEN run_multiple_commands(rc)
    ELSE IF op = "run_ssh_command" THEN run_ssh_command(rc)
    ELSE <<rc = "zero", "stdout", "stderr">>

\* the ways the child of the call can end: only a call with a timeout is killed
EndsOf(op) == IF op = "subprocess" THEN ExitKinds \ {"timeout"} ELSE ExitKinds

\* the child exits with rc, or is killed on timeout, after d seconds; the call
\* returns, and with it the ssh_session block whose exit made the call
ChannelReturn(rc, d) ==
    channel' =
        [channel EXCEPT
            !.pc = "idle",
            !.since = Capped(@ + d), !.elapsed = Capped(@ + d),
            !.call = [@ EXCEPT !.rc = rc,
                               !.result = ChannelResult(channel.call.op, rc)],
            !.session.at = IF @ = "exit" THEN "finished" ELSE @]

\* a command that timed out is tried once more on a new connection
ChannelCloseRetry ==
    /\ cmd = "ssh-channel" /\ channel.pc = "running"
    /\ \E rc \in EndsOf(channel.call.op), d \in 0.._connection_delay :
          IF rc = "timeout" /\ channel.call.opened = 1
          THEN /\ channel' = [channel EXCEPT !.call.opened = 2, !.since = 0,
                                             !.gap = Capped(channel.since + d)]
               /\ open' = OpenConn(CloseConn(open))
          ELSE /\ ChannelReturn(rc, d)
               /\ open' = CloseConn(open)
    /\ ChannelFrame

ChannelClose ==
    /\ cmd = "ssh-channel" /\ channel.pc = "running"
    /\ \E rc \in EndsOf(channel.call.op), d \in 0.._connection_delay :
          ChannelReturn(rc, d)
    /\ open' = CloseConn(open)
    /\ ChannelFrame

\* "with ssh_manager.ssh_session() as session:"
SessionEnter ==
    /\ cmd = "ssh-channel" /\ channel.pc = "idle"
    /\ channel.session.at \in {"none", "finished"}
    /\ channel.count < MaxConnections
    /\ channel' = [channel EXCEPT !.session = [NoSession EXCEPT !.at = "block"]]
    /\ UNCHANGED open
    /\ ChannelFrame

\* session.add_command(command)
SessionAdd ==
    /\ cmd = "ssh-channel" /\ channel.pc = "idle"
    /\ channel.session.at = "block"
    /\ Len(channel.session.queue) < MaxQueued
    /\ channel' = [channel EXCEPT !.session.queue = Append(@, 0)]
    /\ UNCHANGED open
    /\ ChannelFrame

\* run_multiple_commands(self.commands): every queued command is sent
SessionSent(session) ==
    [session EXCEPT !.queue = [i \in 1..Len(@) |-> @[i] + 1], !.opened = @ + 1]

\* session.execute() called in the block: nothing to do for an empty queue,
\* else run_multiple_commands
SessionExecute ==
    /\ cmd = "ssh-channel" /\ channel.pc = "idle"
    /\ channel.session.at = "block"
    /\ ~channel.session.inside
    /\ channel.count + 1 < MaxConnections
    /\ IF channel.session.queue = <<>>
       THEN /\ channel' = [channel EXCEPT !.session.inside = TRUE]
            /\ UNCHANGED open
       ELSE /\ channel' =
                  [Started("singleton", "run_multiple_commands") EXCEPT
                      !.session = [SessionSent(@) EXCEPT !.inside = TRUE]]
            /\ open' = OpenConn(open)
    /\ ChannelFrame

\* the block ends, with or without an exception: "finally: if session.commands:
\* return session.execute()"; the return in the finally clause discards the
\* exception
SessionExit ==
    /\ cmd = "ssh-channel" /\ channel.pc = "idle"
    /\ channel.session.at = "block"
    /\ \E raised \in BOOLEAN :
          IF channel.session.queue = <<>>
          THEN /\ channel' = [channel EXCEPT !.session.at = "finished",
                                             !.session.raised = raised]
               /\ UNCHANGED open
          ELSE /\ channel' =
                     [Started("singleton", "run_multiple_commands") EXCEPT
                         !.session = [SessionSent(@) EXCEPT !.at = "exit",
                                                            !.raised = raised]]
               /\ open' = OpenConn(open)
    /\ ChannelFrame

-----------------------------------------------------------------------------
(* Specification *)

Next ==
    \/ ApiCreate \/ ApiUpdate \/ ApiDeploy \/ ApiRemove
    \/ InfraMain \/ CleanupOpen \/ CleanupClose \/ StartStack \/ DeployPortainer
    \/ SshDeployOpen \/ SshDeployClose \/ Stabilize \/ HealthCheck \/ Summary
    \/ SshMain \/ CheckClose \/ ServiceStart \/ ViaOpen \/ ViaClose \/ ServiceWait
    \/ Prompt \/ VerifyOpen \/ VerifyClose \/ SslOpen \/ SslClose \/ SshReturn
    \/ ApiHealth \/ BuildStack \/ DeployWithRegistry \/ GenerateCompose
    \/ \E p \in Procs : RaceDeploy(p)
    \/ \E p \in Procs : RaceCreateCheck(p)
    \/ \E p \in Procs : RaceCreate(p)
    \/ \E p \in Procs : RaceUpdateCheck(p)
    \/ \E p \in Procs : RaceUpdate(p)
    \/ ChannelOpen \/ ChannelClose
    \/ SessionEnter \/ SessionAdd \/ SessionExecute \/ SessionExit

Spec == Init /\ [][Next]_vars

-----------------------------------------------------------------------------
(* Properties *)

\* the session cap of the remote host
MaxSessions == 2

\* the deployment order of the orchestrator that is running
Order == IF cmd = "ssh-deploy-all" THEN services ELSE STACK_ORDER

Orchestrating == cmd \in {"deploy-all", "ssh-deploy-all"}

StateAt(i) == state[Order[i]]

\* C1: at every point of a deployment run of either orchestrator, the number of
\* simultaneously open remote connections is at most 2.
C1_SessionCap == Orchestrating => open <= MaxSessions

\* C1 witness: the deploy connection of the last service is open, after all the
\* earlier connections of the run were opened and closed.
C1_Witness ==
    /\ cmd = "ssh-deploy-all" /\ pc = "via" /\ conn = "deploy"
    /\ idx = Len(services) /\ open = 1

\* C2 as stated: while a bundle is being deployed, every bundle before it in the
\* deployment order has reached Active or Unhealthy.
C2_Original ==
    Orchestrating =>
        \A i \in 1..Len(Order) : StateAt(i) \in InProgress =>
            \A j \in 1..(i - 1) : StateAt(j) \in {"Active", "Unhealthy"}

\* C2 amended: while a bundle is being deployed, every bundle before it in the
\* deployment order has been attempted and has finished, as Active, Unhealthy or
\* Failed; none of them is unattempted or still in progress.
C2_PredecessorsFinished ==
    Orchestrating =>
        \A i \in 1..Len(Order) : StateAt(i) \in InProgress =>
            \A j \in 1..(i - 1) : StateAt(j) \in Finished

\* C2 witness: a bundle is being deployed after a bundle before it failed.
C2_Witness ==
    /\ cmd = "deploy-all"
    /\ \E i \in 1..Len(Order) :
          /\ StateAt(i) \in InProgress
          /\ \E j \in 1..(i - 1) : StateAt(j) = "Failed"
          /\ \E j \in 1..(i - 1) : StateAt(j) = "Active"

\* C3: bundles are deployed one at a time in declared order: at most one bundle
\* is in progress, and once a bundle has left Absent every bundle before it has
\* finished (its stabilisation wait and health check included) and every bundle
\* after the one in progress is still Absent.
C3_OneAtATime ==
    Orchestrating =>
        /\ Cardinality({b \in Bundles : state[b] \in InProgress}) <= 1
        /\ \A i \in 1..Len(Order) : \A j \in 1..Len(Order) :
              /\ (i < j /\ StateAt(j) # "Absent") => StateAt(i) \in Finished
              /\ (i < j /\ StateAt(i) \in InProgress) => StateAt(j) = "Absent"
        /\ pc \in {"stabilize", "health", "svc_wait"} => StateAt(idx) = "Activating"

\* C3 witness: a bundle is in its health check while the bundle before it is
\* finished and the bundle after it has not started.
C3_Witness ==
    /\ cmd = "deploy-all" /\ pc = "health" /\ idx = 2
    /\ StateAt(1) = "Unhealthy" /\ StateAt(2) = "Activating" /\ StateAt(3) = "Absent"

\* number of requests of one kind a call issued
Count(reqs, kind) == Cardinality({i \in 1..Len(reqs) : reqs[i] = kind})

\* C4 as stated: deploy_stack with a loadable compose file issues exactly one create
\* and no update when no stack of that name exists, and exactly one update and no
\* create when one exists.
C4_Original ==
    (last.op = "deploy" /\ last.file # "bad") =>
        /\ last.pre = {} => Count(last.reqs, "POST") = 1 /\ Count(last.reqs, "PUT") = 0
        /\ last.pre # {} => Count(last.reqs, "PUT") = 1 /\ Count(last.reqs, "POST") = 0

\* C5: deploy_stack called twice in a row for the same name with the same definition,
\* every request accepted by the control plane, leaves exactly one instance of that
\* name, and neither call fails with an already-exists error.
C5_UpsertTwice ==
    (last.repeat /\ last.file # "bad") =>
        /\ Cardinality(Named(cp, last.name)) = 1
        /\ last.err # "AlreadyExists"
        /\ last.prevErr # "AlreadyExists"

\* C5 witness: the second of two such calls, the first of which created the instance
\* and the second of which updated it.
C5_Witness ==
    /\ last.repeat /\ last.file # "bad" /\ calls = 2
    /\ last.reqs = <<"GET", "GET", "PUT">>
    /\ \E s \in last.pre : s.id = Len(STACK_ORDER) + 1

\* a step that is a deploy_stack call: every step of the deploy-all orchestrator
\* that changes the control plane, and the API client's deploy calls
UpsertStep ==
    \/ cmd = "deploy-all"
    \/ calls' = calls + 1 /\ last'.op = "deploy"

\* C6: a deploy_stack call keeps every existing instance with its id and issues no
\* delete request; an instance is replaced by one with another id only by
\* create_stack with force=True.
C6_IdStable ==
    [][/\ UpsertStep =>
            /\ \A s \in cp : \E t \in cp' : t.id = s.id /\ t.name = s.name
            /\ calls' = calls + 1 => Count(last'.reqs, "DELETE") = 0
       /\ (\E s \in cp, t \in cp' : s.name = t.name /\ s.id # t.id) =>
            last'.op = "create" /\ last'.force]_vars

\* C6 witness: deploy_stack updated an existing instance in place, its id kept and
\* its definition changed.
C6_Witness ==
    /\ last.op = "deploy" /\ last.ok
    /\ \E s \in last.pre, t \in Named(cp, last.name) : s.id = t.id /\ s.content # t.content

\* C7 as stated: create_stack on an existing name without force fails, issues no
\* create request and leaves the instance unchanged; with force the instance is
\* deleted before any create request, and a failed deletion means no create request.
C7_Original ==
    (last.op = "create" /\ last.pre # {}) =>
        /\ ~last.force =>
              /\ ~last.ok
              /\ Count(last.reqs, "POST") = 0
              /\ Named(cp, last.name) = last.pre
        /\ (last.force /\ Count(last.reqs, "POST") > 0) =>
              \E i \in 1..Len(last.reqs) : \E j \in (i + 1)..Len(last.reqs) :
                  /\ last.reqs[i] = "DELETE" /\ last.answers[i] = "ok"
                  /\ last.reqs[j] = "POST"

\* C8: update_stack for a name that has no instance fails without issuing an update
\* request and leaves the control plane unchanged.
C8_UpdateNotFound ==
    [][(calls' = calls + 1 /\ last'.op = "update" /\ last'.pre = {}) =>
            /\ ~last'.ok
            /\ Count(last'.reqs, "PUT") = 0
            /\ cp' = cp /\ nextId' = nextId]_vars

\* C8 witness: update_stack looked the name up, the lookup succeeded and found no
\* such stack among the others.
C8_Witness ==
    /\ last.op = "update" /\ last.pre = {} /\ last.err = "NotFound"
    /\ last.answers = <<"ok">> /\ cp # {}

InSeq(x, seq) == \E i \in 1..Len(seq) : seq[i] = x

\* C9: a bundle whose deployment failed is in the failed set, is in state Failed,
\* and is not in the success count: the count never exceeds the bundles attempted
\* minus the failed ones.
C9_FailedNotCounted ==
    Orchestrating =>
        /\ \A b \in actFailed : InSeq(b, failed_stacks) /\ state[b] = "Failed"
        /\ success_count <=
              Cardinality({b \in Bundles : state[b] # "Absent"}) - Len(failed_stacks)

\* C9 witness: a finished run in which a bundle's activation failed and the run
\* went on to deploy a later bundle successfully.
C9_Witness ==
    /\ cmd = "deploy-all" /\ pc = "done" /\ success_count >= 1
    /\ \E i \in 1..Len(Order) : \E j \in (i + 1)..Len(Order) :
          /\ Order[i] \in actFailed
          /\ StateAt(j) = "Active"

\* C10 as stated: deploy-all exits 0 exactly when every bundle reached Active, and
\* 1 otherwise.
C10_Original ==
    (cmd = "deploy-all" /\ pc = "done") =>
        exitCode = IF \A b \in Bundles : state[b] = "Active" THEN 0 ELSE 1

\* C10 amended: deploy-all exits 0 exactly when every bundle was deployed
\* successfully (reached Active or Unhealthy), and 1 otherwise; a failed health
\* check alone does not make the exit code 1.
C10_ExitCode ==
    (cmd = "deploy-all" /\ pc = "done") =>
        exitCode = IF \A b \in Bundles : state[b] \in {"Active", "Unhealthy"} THEN 0 ELSE 1

\* C10 witness: the run ended with exit code 0 although a bundle ended Unhealthy.
C10_Witness ==
    /\ cmd = "deploy-all" /\ pc = "done" /\ exitCode = 0
    /\ \E b \in Bundles : state[b] = "Unhealthy"


\* a create, update or delete request that got no answer is the last request of
\* its call, and no call sends more than one request of such a kind
NoRetry ==
    /\ \A i \in 1..Len(last.reqs) :
          (last.answers[i] = "transport" /\ last.reqs[i] # "GET") => i = Len(last.reqs)
    /\ \A kind \in {"POST", "PUT", "DELETE"} : Count(last.reqs, kind) <= 1

Listed == SelectSeq(health.containers,
                    LAMBDA k : k.project = "self" /\ k.State # "exited")

CountedHealthy(k) ==
    /\ k.State = "running"
    /\ Contains(k.Status, "healthy") \/ ~Contains(k.Status, "starting")

NumHealthy == Cardinality({i \in 1..Len(Listed) : CountedHealthy(Listed[i])})

\* the health check found the stack active and got the container listing
Decided ==
    /\ health.name # "" /\ health.answers = <<"ok", "ok">>
    /\ \E s \in health.pre : s.status = 1

\* C14 as stated: the bundle is healthy exactly when at least 80% of its services
\* are counted healthy.
C14_Original ==
    Decided => (health.result <=> NumHealthy * 5 >= Len(Listed) * 4)

\* C14 amended: the bundle is healthy exactly when every one of its services is
\* counted healthy; one service not counted healthy (4 of 5) makes it unhealthy.
C14_AllHealthy ==
    Decided => (health.result <=> \A i \in 1..Len(Listed) : CountedHealthy(Listed[i]))

\* C14 witness: 4 of 5 services counted healthy, the bundle found unhealthy.
C14_Witness ==
    /\ Decided /\ Len(Listed) = 5 /\ NumHealthy = 4
    /\ ~health.result

\* number of containers of the checked stack on the host in one State
InState(st) ==
    Cardinality({i \in 1..Len(health.containers) :
                    /\ health.containers[i].project = "self"
                    /\ health.containers[i].State = st})

\* C15 as stated: for a bundle with 3 services running and 1 exited, health_check
\* returns False.
C15_Original ==
    (Decided /\ InState("running") = 3 /\ InState("exited") = 1) => ~health.result

\* C16: a failed health check of a successfully activated bundle changes neither
\* the failed set nor the success count, the loop goes on to the next bundle, and
\* no Unhealthy bundle is in the failed set.
C16_HealthWarning ==
    [][(cmd = "deploy-all" /\ pc = "health") =>
            /\ failed_stacks' = failed_stacks
            /\ success_count' = success_count
            /\ pc' = "loop" /\ idx' = idx + 1
            /\ \A b \in Bundles : state'[b] = "Unhealthy" => ~InSeq(b, failed_stacks')]_vars

\* C16 witness: the second bundle is being deployed after the first was found
\* unhealthy, and the failed set is empty.
C16_Witness ==
    /\ cmd = "deploy-all" /\ pc \in {"ssh", "portainer"} /\ idx = 2
    /\ StateAt(1) = "Unhealthy" /\ failed_stacks = <<>> /\ success_count = 1

\* C17 as stated: one deploy_via_ssh deployment opens exactly one remote connection.
C17_Original ==
    cmd = "ssh-deploy-all" =>
        /\ viaOpened <= 1
        /\ pc = "svc_wait" => viaOpened = 1

\* C18 as stated: deploy_stack whose lookup failed fails, and issues no create
\* request.
C18_Original ==
    (last.op = "deploy" /\ last.answers[1] # "ok") =>
        /\ ~last.ok
        /\ Count(last.reqs, "POST") = 0

\* C19 as stated: build_stack for multi-platform targets publishes every image it
\* builds and leaves no local image.
C19_Original ==
    (build.op = "build_stack" /\ build.multiplatform) =>
        /\ build.local = {}
        /\ build.result => build.published = build.services

\* C20 as stated: build_stack with push returns True, and deploy_with_registry goes
\* on to the upsert, only if every service of the bundle was built and pushed.
C20_Original ==
    /\ (build.op = "build_stack" /\ build.push /\ build.result) =>
          build.published = build.services
    /\ (build.op = "deploy_with_registry" /\ build.upsert) =>
          build.published = build.services

\* the docker build of service s did not produce its image
BuildFailed(s) ==
    \/ build.outcomes[s] = "build_fails"
    \/ build.multiplatform /\ build.push /\ build.outcomes[s] # "ok"

\* build_stack ran its loop over the services of a known stack
BuildLoop == build.op = "build_stack" /\ build.attempted # {}

\* position of service s in the stack's build order
BuildPos(s) ==
    CHOOSE i \in 1..Len(BUILD_STACK_SERVICES(build.stack_name)) :
        BUILD_STACK_SERVICES(build.stack_name)[i] = s

\* C21 as stated: once one service's build fails, no later service of the same
\* bundle is built and the call reports failure.
C21_Original ==
    BuildLoop =>
        \A s \in build.attempted :
            BuildFailed(s) =>
                /\ ~build.result
                /\ \A t \in build.services :
                      BuildPos(t) > BuildPos(s) => t \notin build.attempted

\* C21 amended: build_stack does not fail fast: once one service's build fails,
\* the later services of the same bundle are still built, and the call reports
\* failure.
C21_NoFailFast ==
    BuildLoop =>
        /\ build.attempted = build.services
        /\ \A s \in build.services :
              ~BuildFailed(s) => s \in build.local \cup build.published
        /\ (\E s \in build.services : BuildFailed(s)) => ~build.result

\* C21 witness: the first service's build failed, the second service was built,
\* and build_stack returned False.
C21_Witness ==
    /\ BuildLoop /\ build.stack_name = "personal-website"
    /\ BuildFailed("website") /\ "website-dev" \in build.local
    /\ ~build.result

\* the compose file the last generate_registry_compose call loaded, and the
\* definition it left in docker-compose.registry.yml
SourceServices == generated.before.compose.services
ArtifactServices == disk.registry.services

\* C22: the generated definition has, for every configured buildable service, no
\* build section and exactly the image _get_image_tag(bundle, service, version);
\* every other service definition is unchanged; the source compose file is not
\* modified; generating again for the same (bundle, version) yields the same
\* artifact.
C22_RegistryCompose ==
    generated.result = "registry_file" =>
        /\ disk.registry.exists
        /\ DOMAIN ArtifactServices = DOMAIN SourceServices
        /\ \A s \in DOMAIN ArtifactServices :
              IF s \in ServiceSet(generated.stack_name)
              THEN /\ "build" \notin DOMAIN ArtifactServices[s]
                   /\ ArtifactServices[s].image =
                         _get_image_tag(generated.stack_name, s, generated.version)
              ELSE ArtifactServices[s] = SourceServices[s]
        /\ disk.compose = generated.before.compose
        /\ (generated.repeat /\ generated.previous.exists) =>
              disk.registry = generated.previous

\* C22 witness: the definition was generated a second time for the same version,
\* from a compose file in which a configured service and another service both
\* have a build section.
C22_Witness ==
    /\ generated.result = "registry_file" /\ generated.repeat
    /\ generated.previous.exists
    /\ generated.stack_name = "jupyter"
    /\ DOMAIN SourceServices = {"jupyterhub", "db"}
    /\ "build" \in DOMAIN SourceServices["jupyterhub"]
    /\ "build" \in DOMAIN SourceServices["db"]
    /\ "build" \in DOMAIN ArtifactServices["db"]

\* process p has come back from deploy_stack
RaceDone(p) == cmd = "upsert-race" /\ race[p].pc = "done"

\* both lookups of process p, in deploy_stack and in create_stack, were answered
\* and showed no instance of the name
SawAbsence(p) == race[p].seen = <<"absent", "absent">>

\* C23: upsert is not atomic across its lookup-then-act pair: a process that
\* observed absence issues its create request whatever the other process has done
\* since, so that with no instance initially both processes can observe absence
\* and both issue a create request for the name.
C23_NotAtomic ==
    \A p \in Procs :
        (RaceDone(p) /\ SawAbsence(p)) => race[p].reqs = <<"GET", "GET", "POST">>

\* C23 witness: both processes observed absence and both issued a create request;
\* one create was applied, the other was refused.
C23_Witness ==
    /\ \A p \in Procs :
          RaceDone(p) /\ SawAbsence(p) /\ race[p].reqs = <<"GET", "GET", "POST">>
    /\ race[1].ok /\ ~race[2].ok
    /\ Cardinality(Named(cp, RaceName)) = 1

\* C24 as stated: of any two remote connections opened one after the other, the
\* later one starts at least the fixed delay after the start of the earlier one,
\* however the caller opened them.
C24_Original ==
    (cmd = "ssh-channel" /\ channel.count >= 2) => channel.gap >= _connection_delay

\* position of a command in the deploy command sequence (0: not one of them)
StepPos(step) ==
    IF \E i \in 1..Len(deploy_steps) : deploy_steps[i] = step
    THEN CHOOSE i \in 1..Len(deploy_steps) : deploy_steps[i] = step
    ELSE 0

\* the deploy command sequence of the running deployment reached the remote host
ChainRan == cmd = "ssh-deploy-all" /\ remote.name # ""

\* C25: the steps of the remote deploy command sequence run in order and each
\* runs only if all earlier steps succeeded; when the rebuild fails after the
\* stop succeeded, no start is attempted, the remote bundle is left stopped, and
\* the deployment reports failure.
C25_Chain ==
    ChainRan =>
        /\ \A i \in 1..Len(remote.ran) : remote.ran[i] = deploy_steps[i]
        /\ Len(remote.ran) =
              IF remote.failAt = 0 THEN Len(deploy_steps) ELSE remote.failAt
        /\ remote.failAt = StepPos("build") =>
              /\ \A i \in 1..Len(remote.ran) : remote.ran[i] # "up"
              /\ remote.after = "stopped"
              /\ ~remote.success
              /\ pc = "prompt" => state[remote.name] = "Failed"

\* C25 witness: the bundle was running, the stop succeeded, the rebuild failed,
\* and the deployment was reported failed with the bundle stopped.
C25_Witness ==
    /\ ChainRan /\ remote.before = "running"
    /\ remote.ran = <<"cd", "cp", "down", "build">>
    /\ remote.after = "stopped"
    /\ pc = "prompt" /\ state[remote.name] = "Failed"

\* what the health probe of a container reports, read off its Status text
Probe(k) ==
    IF k.Status = StatusHealthy THEN "healthy"
    ELSE IF k.Status = StatusUnhealthy THEN "unhealthy"
    ELSE IF k.Status = StatusStarting THEN "starting"
    ELSE "none"

\* C26 as stated: a container is counted healthy if and only if it is running
\* and its probe, when it has one, reports healthy; a running container whose
\* probe reports unhealthy or starting is not counted.
C26_Original ==
    Decided =>
        health.healthy_count =
            Cardinality({i \in 1..Len(Listed) :
                            /\ Listed[i].State = "running"
                            /\ Probe(Listed[i]) \in {"healthy", "none"}})

\* the last call of the channel was to one of SSHManager's two methods
ManagerCall ==
    /\ cmd = "ssh-channel"
    /\ channel.call.op \in {"run_ssh_command", "run_multiple_commands"}

\* C27: every call to run_ssh_command or run_multiple_commands opens at most one
\* connection; when the command times out, the call returns the failure triple
\* (False, "", message) without raising and without a second connection attempt.
C27_OneAttempt ==
    ManagerCall =>
        /\ channel.call.opened <= 1
        /\ channel.call.rc = "timeout" =>
              /\ channel.pc = "idle" /\ open = 0
              /\ channel.call.opened = 1
              /\ ~channel.call.raised
              /\ Len(channel.call.result) = 3
              /\ channel.call.result[1] = FALSE /\ channel.call.result[2] = ""
              /\ channel.call.result[3] \in {"SSH command timed out",
                                             "SSH commands timed out"}

\* C27 witness: a run_multiple_commands call timed out and has returned.
C27_Witness ==
    /\ ManagerCall /\ channel.call.op = "run_multiple_commands"
    /\ channel.call.rc = "timeout" /\ channel.pc = "idle"
    /\ channel.call.result = <<FALSE, "", "SSH commands timed out">>
    /\ channel.call.opened = 1

\* C28 as stated: in hybrid mode _deploy_with_ssh reports a buildable stack as
\* deployed exactly when the remote command exited with status 0, and as failed
\* exactly when it did not.
C28_Original ==
    (cmd = "deploy-all" /\ ~use_registry) =>
        \A b \in BUILD_STACKS : state[b] = "Failed" <=> b \in actFailed

\* an ssh_session block has been left
SessionOver == cmd = "ssh-channel" /\ channel.session.at = "finished"

\* C29 as stated: the commands queued in an ssh_session block are sent exactly
\* once, together in a single connection, when the block exits, also when
\* execute() was called inside the block or the block body raised; with no
\* command queued, no connection is opened.
C29_Original ==
    SessionOver =>
        IF channel.session.queue = <<>>
        THEN channel.session.opened = 0
        ELSE /\ channel.session.opened = 1
             /\ \A i \in 1..Len(channel.session.queue) :
                   channel.session.queue[i] = 1

\* C30 as stated: health_check returns True only if the stack is active, at least
\* one container of the stack is listed, and every listed container of the stack
\* is counted healthy; an active stack with no containers is never reported
\* healthy.
C30_Original ==
    (health.name # "" /\ health.result) =>
        /\ \E s \in health.pre : s.status = 1
        /\ Len(Listed) >= 1
        /\ health.healthy_count = Len(Listed)

====
